---- MODULE Spec2Model ----
(***************************************************************************)
(* Model of the admin dashboard's session manager (AuthProvider in         *)
(* src/context/AuthContext.tsx) and of the listing row actions             *)
(* (ListingActions / Options).                                             *)
(*                                                                         *)
(* One action is one synchronous run of JavaScript (an event handler up to *)
(* its first await, or the continuation after an await) followed by the    *)
(* React commit of the state it set.  Requests in flight are the elements  *)
(* of the bag `pending`; the remote API answers them in any order and with *)
(* any outcome.                                                            *)
(***************************************************************************)
EXTENDS Integers, Sequences, FiniteSets, Bags, TLC

VARIABLES
    user,            \* useState<User | null>()
    token,           \* useState<string | null>()
    role,            \* useState<... | string | null>()
    isAuthenticated, \* useState(false)
    isLoadingAuth,   \* useState(false)
    reqToken,        \* the token closed over by the registered request interceptor
    storage,         \* sessionStorage: the two admin-skymeasures-* keys
    pending,         \* bag of the asynchronous calls in flight
    ev,              \* what the last step did: its inputs and outputs, and in nav
                     \* the route it passed to navigate ("none": no navigation)
    \* ListingActions, one row of the listing table
    dataId,          \* data.id of the row's property
    openModal,       \* useState<false | "edit" | "details">(false)
    loadingStates,   \* ListingActions' loadingStates, by index of dropdownList
    optionsLoading,  \* Options' loadingStates, by index of options
    clicks,          \* bag of the handleItemClick calls awaiting their handler
    lev              \* what the last listing step did (requests issued, toast shown)

authVars == <<user, token, role, isAuthenticated, isLoadingAuth, reqToken, storage,
              pending, ev>>
listingVars == <<dataId, openModal, loadingStates, optionsLoading, clicks, lev>>
vars == <<authVars, listingVars>>

----------------------------------------------------------------------------
(* Bounds of the model.                                                    *)

MaxUsers == 2      \* accounts the API knows
MaxTokens == 2     \* distinct tokens the API hands out
MaxPending == 2    \* asynchronous calls in flight at once
MaxRefresh == 2    \* token refreshes followed for one original request
MaxProps == 2      \* property ids a row may show
MaxClicks == 2     \* handleItemClick calls in flight at once

----------------------------------------------------------------------------
(* JavaScript values.                                                      *)

Undefined == [type |-> "undefined"]
Null == [type |-> "null"]
Bool(b) == [type |-> "boolean", val |-> b]
Num(n) == [type |-> "number", val |-> n]
Str(s) == [type |-> "string", val |-> s]   \* s: the string as a sequence of pieces
Obj(f) == [type |-> "object", obj |-> f]

IsNullish(v) == v.type \in {"undefined", "null"}

Truthy(v) ==
    CASE v.type = "undefined" -> FALSE
      [] v.type = "null" -> FALSE
      [] v.type = "boolean" -> v.val
      [] v.type = "number" -> v.val # 0
      [] v.type = "string" -> v.val # <<>>
      [] OTHER -> TRUE

\* o.k (o?.k when o is null or undefined)
Get(o, k) ==
    IF o.type = "object" /\ k \in DOMAIN o.obj THEN o.obj[k] ELSE Undefined

\* { ...o, [k]: v }
SpreadWith(o, k, v) ==
    LET base == IF o.type = "object" THEN o.obj ELSE <<>>
    IN  Obj([x \in (DOMAIN base) \cup {k} |-> IF x = k THEN v ELSE base[x]])

\* JSON.stringify drops the properties whose value is undefined
JSONStringify(v) ==
    IF v.type = "object"
    THEN Str(<<"json", Obj([x \in {y \in DOMAIN v.obj : v.obj[y] # Undefined} |-> v.obj[x]])>>)
    ELSE Str(<<"json", v>>)

JSONParse(s) == s.val[2]

TokenStr(n) == Str(<<"t", n>>)
Tokens == {TokenStr(n) : n \in 1..MaxTokens}
Bearer(t) == Str(<<"Bearer ">> \o t.val)

\* String.prototype.includes on strings written as sequences of characters
Includes(s, sub) ==
    \E i \in 0..(Len(s) - Len(sub)) : SubSeq(s, i + 1, i + Len(sub)) = sub

----------------------------------------------------------------------------
(* The remote API's answers.                                               *)

AdminChars == <<"a", "d", "m", "i", "n">>
ServerRole(id) == IF id = 1 THEN <<"s", "u", "p", "e", "r", "-">> \o AdminChars
                  ELSE <<"s", "t", "a", "f", "f">>
ServerPhone(id) == IF id = 1 THEN Str(<<"080">>) ELSE Undefined

\* the user objects of res.data.user
ServerUsers ==
    {[id |-> Num(i), phone |-> ServerPhone(i), is_verified |-> v, role |-> ServerRole(i)] :
        i \in 1..MaxUsers, v \in {Bool(TRUE), Bool(FALSE), Undefined}}

----------------------------------------------------------------------------
(* setUserSession                                                          *)

CurrentUserOf(u) ==
    Obj([userId |-> u.id,
         phone |-> u.phone,
         otpVerified |-> IF Truthy(u.is_verified) THEN u.is_verified ELSE Bool(FALSE),
         role |-> IF Includes(u.role, AdminChars) THEN Str(<<"ADMIN">>) ELSE Str(<<"STAFF">>)])

StorageAfterSession(st, currentUser, authToken) ==
    [st EXCEPT !.currentUser = JSONStringify(currentUser),
               !.token = JSONStringify(authToken)]

\* (mutant) the layout effect registers the interceptor once and never again
RegisteredOnce(captured, newToken) == captured

\* the request interceptor is re-registered by the layout effect whenever token changes
RegisteredToken(captured, newToken) == newToken

\* the session restored from sessionStorage when getAuthUser fails
RestoredSession(st) ==
    IF Truthy(st.currentUser) /\ Truthy(st.token)
    THEN LET currentUser == JSONParse(st.currentUser)
         IN  [user |-> currentUser, token |-> JSONParse(st.token),
              role |-> Get(currentUser, "role")]
    ELSE [user |-> Null, token |-> Null, role |-> Null]

----------------------------------------------------------------------------
(* Interceptors                                                            *)

\* (mutant) the interceptor does not look at config._retry
RequestInterceptorNoRetryTest(config, captured) ==
    [config EXCEPT !.Authorization =
        IF Truthy(captured) THEN Bearer(captured) ELSE config.Authorization]

\* api.interceptors.request.use: the headers the request leaves with
RequestInterceptor(config, captured) ==
    [config EXCEPT !.Authorization =
        IF ~config.retry /\ Truthy(captured) THEN Bearer(captured) ELSE config.Authorization]

\* (mutant) the test looks at the status alone
ShouldRefreshOnAny403(status, message) == status = 403

\* the response interceptor's test for a token refresh
ShouldRefresh(status, message) == status = 403 /\ message = "Unauthorized"

----------------------------------------------------------------------------
Op(kind) == [kind |-> kind]
InFlight == BagCardinality(pending)
Add(op) == pending (+) SetToBag({op})
Remove(op) == pending (-) SetToBag({op})
Replace(op, new) == (pending (-) SetToBag({op})) (+) SetToBag({new})

\* const dropdownList = [...]: label and showLoader by index
dropdownList ==
    [i \in 0..3 |->
        CASE i = 0 -> [label |-> "Approve", showLoader |-> TRUE]
          [] i = 1 -> [label |-> "Reject", showLoader |-> TRUE]
          [] i = 2 -> [label |-> "View details", showLoader |-> FALSE]
          [] i = 3 -> [label |-> "Delete", showLoader |-> TRUE]]

\* const options = [...]
options ==
    [i \in 0..4 |->
        CASE i = 0 -> [label |-> "Approve", showLoader |-> TRUE]
          [] i = 1 -> [label |-> "Reject", showLoader |-> TRUE]
          [] i = 2 -> [label |-> "Edit", showLoader |-> FALSE]
          [] i = 3 -> [label |-> "Flag", showLoader |-> TRUE]
          [] i = 4 -> [label |-> "Delete", showLoader |-> TRUE]]

ListingInit ==
    /\ dataId = 1
    /\ openModal = "false"
    /\ loadingStates = [i \in DOMAIN dropdownList |-> FALSE]
    /\ optionsLoading = [i \in DOMAIN options |-> FALSE]
    /\ clicks = EmptyBag
    /\ lev = [op |-> "render", requests |-> {}, toast |-> "none"]

AuthInit ==
    /\ user = Undefined
    /\ token = Undefined
    /\ role = Undefined
    /\ isAuthenticated = FALSE
    /\ isLoadingAuth = FALSE
    /\ reqToken = Undefined
    /\ storage = [currentUser |-> Null, token |-> Null]
    /\ pending = SetToBag({Op("fetchUser")})
    /\ ev = [op |-> "mount", nav |-> "none",
             held |-> [user |-> Undefined, token |-> Undefined, role |-> Undefined]]

Init == AuthInit /\ ListingInit

\* The page is reloaded: the provider mounts again, sessionStorage survives.
Remount ==
    /\ UNCHANGED listingVars
    /\ user' = Undefined
    /\ token' = Undefined
    /\ role' = Undefined
    /\ isAuthenticated' = FALSE
    /\ isLoadingAuth' = FALSE
    /\ reqToken' = Undefined
    /\ pending' = SetToBag({Op("fetchUser")})
    /\ ev' = [op |-> "mount", nav |-> "none",
              held |-> [user |-> user, token |-> token, role |-> role]]
    /\ UNCHANGED <<storage>>

\* fetchUser after await authApi.getAuthUser()
FetchUserDone ==
    /\ UNCHANGED listingVars
    /\ BagIn(Op("fetchUser"), pending)
    /\ pending' = Remove(Op("fetchUser"))
    /\ \/ \E u \in ServerUsers, t \in Tokens :
            LET currentUser == CurrentUserOf(u)
                nav == IF ~Truthy(Get(currentUser, "otpVerified"))
                       THEN "/verify-otp" ELSE "/dashboard"
            IN  /\ user' = currentUser
                /\ token' = t
                /\ role' = Get(currentUser, "role")
                /\ storage' = StorageAfterSession(storage, currentUser, t)
                /\ ev' = [op |-> "fetchUser", ok |-> TRUE, nav |-> nav]
       \/ LET s == RestoredSession(storage)
          IN  /\ user' = s.user
              /\ token' = s.token
              /\ role' = s.role
              /\ ev' = [op |-> "fetchUser", ok |-> FALSE, nav |-> "none"]
              /\ UNCHANGED <<storage>>
    /\ reqToken' = RegisteredToken(reqToken, token')
    /\ UNCHANGED <<isAuthenticated, isLoadingAuth>>

\* handleLogin up to await authApi.login
HandleLogin ==
    /\ UNCHANGED listingVars
    /\ \E email \in {"", "admin@x.io"}, password \in {"", "secret"} :
           IF email = "" \/ password = ""
           THEN /\ ev' = [op |-> "handleLogin", issued |-> FALSE, nav |-> "none"]
                /\ UNCHANGED <<user, token, role, isAuthenticated, isLoadingAuth, reqToken,
                               storage, pending>>
           ELSE /\ InFlight < MaxPending
                /\ isLoadingAuth' = TRUE
                /\ pending' = Add(Op("login"))
                /\ ev' = [op |-> "handleLogin", issued |-> TRUE, nav |-> "none"]
                /\ UNCHANGED <<user, token, role, isAuthenticated, reqToken, storage>>

\* (mutant) the catch block without setRole(null)
LoginFailedKeepsRole == [user |-> Null, token |-> Null, role |-> role]

\* what handleLogin's catch block leaves in user, token and role
LoginFailed == [user |-> Null, token |-> Null, role |-> Null]

\* handleLogin after await authApi.login: res is "reject" (the request rejects),
\* "falsy" (res.status is falsy) or "ok" with res.data = {user: u, token: t}
LoginDone ==
    /\ UNCHANGED listingVars
    /\ BagIn(Op("login"), pending)
    /\ pending' = Remove(Op("login"))
    /\ isLoadingAuth' = FALSE
    /\ \/ \E res \in {"reject", "falsy"} :
            /\ user' = LoginFailed.user
            /\ token' = LoginFailed.token
            /\ role' = LoginFailed.role
            /\ ev' = [op |-> "login", res |-> res, nav |-> "none"]
            /\ UNCHANGED <<storage>>
       \/ \E u \in ServerUsers, t \in Tokens :
            LET currentUser == CurrentUserOf(u)
                nav == IF ~Truthy(u.is_verified) THEN "/verify-otp" ELSE "/dashboard"
            IN  /\ user' = currentUser
                /\ token' = t
                /\ role' = Get(currentUser, "role")
                /\ storage' = StorageAfterSession(storage, currentUser, t)
                /\ ev' = [op |-> "login", res |-> "ok", verified |-> Truthy(u.is_verified),
                          nav |-> nav]
       \/ \* res.data.user is missing: setUserSession is skipped
          /\ ev' = [op |-> "login", res |-> "ok", verified |-> FALSE, nav |-> "/verify-otp"]
          /\ UNCHANGED <<user, token, role, storage>>
    /\ reqToken' = RegisteredToken(reqToken, token')
    /\ UNCHANGED isAuthenticated

\* handleVerifyOtp up to await authApi.verifyOtp; the continuation closes over the
\* user of the render the handler was called in
HandleVerifyOtp ==
    /\ UNCHANGED listingVars
    /\ \E otp \in {0, 123456}, email \in {"", "admin@x.io"} :
           IF otp = 0 \/ email = ""
           THEN /\ ev' = [op |-> "handleVerifyOtp", issued |-> FALSE, nav |-> "none"]
                /\ UNCHANGED <<user, token, role, isAuthenticated, isLoadingAuth, reqToken,
                               storage, pending>>
           ELSE /\ InFlight < MaxPending
                /\ isLoadingAuth' = TRUE
                /\ pending' = Add([kind |-> "verifyOtp", user |-> user])
                /\ ev' = [op |-> "handleVerifyOtp", issued |-> TRUE, nav |-> "none"]
                /\ UNCHANGED <<user, token, role, isAuthenticated, reqToken, storage>>

\* updatedUser = { ...(user as User), otpVerified: true }, user being the closed-over one
UpdatedUser(closureUser, currentUser) == SpreadWith(closureUser, "otpVerified", Bool(TRUE))

\* handleVerifyOtp after await authApi.verifyOtp
VerifyOtpDone ==
    /\ UNCHANGED listingVars
    /\ \E o \in BagToSet(pending) :
           /\ o.kind = "verifyOtp"
           /\ pending' = Remove(o)
           /\ isLoadingAuth' = FALSE
           /\ \/ LET updatedUser == UpdatedUser(o.user, user)
                 IN  /\ storage' = [storage EXCEPT !.currentUser = JSONStringify(updatedUser)]
                     /\ user' = updatedUser
                     /\ ev' = [op |-> "verifyOtp", ok |-> TRUE, threw |-> FALSE,
                               nav |-> "/dashboard"]
              \/ /\ ev' = [op |-> "verifyOtp", ok |-> FALSE, threw |-> TRUE, nav |-> "none"]
                 /\ UNCHANGED <<user, storage>>
           /\ UNCHANGED <<token, role, isAuthenticated, reqToken>>

\* handleResendOtp up to await authApi.resendOtp
HandleResendOtp ==
    /\ UNCHANGED listingVars
    /\ \E email \in {"", "admin@x.io"} :
           IF email = ""
           THEN /\ ev' = [op |-> "handleResendOtp", issued |-> FALSE, nav |-> "none"]
                /\ UNCHANGED pending
           ELSE /\ InFlight < MaxPending
                /\ pending' = Add(Op("resendOtp"))
                /\ ev' = [op |-> "handleResendOtp", issued |-> TRUE, nav |-> "none"]
    /\ UNCHANGED <<user, token, role, isAuthenticated, isLoadingAuth, reqToken, storage>>

\* handleResendOtp after await authApi.resendOtp: a toast either way
ResendOtpDone ==
    /\ UNCHANGED listingVars
    /\ BagIn(Op("resendOtp"), pending)
    /\ pending' = Remove(Op("resendOtp"))
    /\ \E ok \in BOOLEAN : ev' = [op |-> "resendOtp", ok |-> ok, nav |-> "none"]
    /\ UNCHANGED <<user, token, role, isAuthenticated, isLoadingAuth, reqToken, storage>>

\* handleForgotPassword up to await authApi.forgotPassword
HandleForgotPassword ==
    /\ UNCHANGED listingVars
    /\ \E email \in {"", "admin@x.io"} :
           IF email = ""
           THEN /\ ev' = [op |-> "handleForgotPassword", issued |-> FALSE, nav |-> "none"]
                /\ UNCHANGED <<isLoadingAuth, pending>>
           ELSE /\ InFlight < MaxPending
                /\ isLoadingAuth' = TRUE
                /\ pending' = Add(Op("forgotPassword"))
                /\ ev' = [op |-> "handleForgotPassword", issued |-> TRUE, nav |-> "none"]
    /\ UNCHANGED <<user, token, role, isAuthenticated, reqToken, storage>>

\* (mutant) navigate is called after the try block, whatever the answer
ForgotPasswordRouteAlways(ok) == "/change-password"

\* the route handleForgotPassword navigates to: only when res.status is truthy
ForgotPasswordRoute(ok) == IF ok THEN "/change-password" ELSE "none"

\* handleForgotPassword after await authApi.forgotPassword
ForgotPasswordDone ==
    /\ UNCHANGED listingVars
    /\ BagIn(Op("forgotPassword"), pending)
    /\ pending' = Remove(Op("forgotPassword"))
    /\ isLoadingAuth' = FALSE
    /\ \E ok \in BOOLEAN :
           ev' = [op |-> "forgotPassword", ok |-> ok, nav |-> ForgotPasswordRoute(ok)]
    /\ UNCHANGED <<user, token, role, isAuthenticated, reqToken, storage>>

\* handleResetPassword up to await authApi.resetPassword
HandleResetPassword ==
    /\ UNCHANGED listingVars
    /\ \E email \in {"", "admin@x.io"}, password \in {"", "secret"}, otp \in {"", "123456"} :
           IF email = "" \/ password = "" \/ otp = ""
           THEN /\ ev' = [op |-> "handleResetPassword", issued |-> FALSE, nav |-> "none"]
                /\ UNCHANGED <<isLoadingAuth, pending>>
           ELSE /\ InFlight < MaxPending
                /\ isLoadingAuth' = TRUE
                /\ pending' = Add(Op("resetPassword"))
                /\ ev' = [op |-> "handleResetPassword", issued |-> TRUE, nav |-> "none"]
    /\ UNCHANGED <<user, token, role, isAuthenticated, reqToken, storage>>

\* the route handleResetPassword navigates to: only when res.status is truthy
ResetPasswordRoute(ok) == IF ok THEN "/change-password/success" ELSE "none"

\* handleResetPassword after await authApi.resetPassword
ResetPasswordDone ==
    /\ UNCHANGED listingVars
    /\ BagIn(Op("resetPassword"), pending)
    /\ pending' = Remove(Op("resetPassword"))
    /\ isLoadingAuth' = FALSE
    /\ \E ok \in BOOLEAN :
           ev' = [op |-> "resetPassword", ok |-> ok, nav |-> ResetPasswordRoute(ok)]
    /\ UNCHANGED <<user, token, role, isAuthenticated, reqToken, storage>>

\* handleLogout up to await authApi.logout
HandleLogout ==
    /\ UNCHANGED listingVars
    /\ InFlight < MaxPending
    /\ pending' = Add(Op("logout"))
    /\ ev' = [op |-> "handleLogout", nav |-> "none"]
    /\ UNCHANGED <<user, token, role, isAuthenticated, isLoadingAuth, reqToken, storage>>

\* (mutant) only the user key is removed
StorageAfterLogoutKeepsToken(st) == [st EXCEPT !.currentUser = Null]

\* sessionStorage after handleLogout's two removeItem calls
StorageAfterLogout(st) == [st EXCEPT !.currentUser = Null, !.token = Null]

\* handleLogout after await authApi.logout
LogoutDone ==
    /\ UNCHANGED listingVars
    /\ BagIn(Op("logout"), pending)
    /\ pending' = Remove(Op("logout"))
    /\ \/ /\ token' = Null
          /\ user' = Null
          /\ role' = Null
          /\ isAuthenticated' = FALSE
          /\ storage' = StorageAfterLogout(storage)
          /\ ev' = [op |-> "logout", ok |-> TRUE, nav |-> "routes.LOGIN"]
       \/ /\ ev' = [op |-> "logout", ok |-> FALSE, nav |-> "none"]
          /\ UNCHANGED <<token, user, role, isAuthenticated, storage>>
    /\ reqToken' = RegisteredToken(reqToken, token')
    /\ UNCHANGED isLoadingAuth

\* A component issues a request through api: the request interceptor runs on its config
IssueRequest ==
    /\ UNCHANGED listingVars
    /\ \E auth \in {Undefined, Bearer(TokenStr(1))} :
           LET config == [Authorization |-> auth, retry |-> FALSE]
               sent == RequestInterceptor(config, reqToken)
           IN  /\ InFlight < MaxPending
               /\ pending' = Add([kind |-> "request", config |-> sent, refreshes |-> 0,
                                  resends |-> 0])
               /\ ev' = [op |-> "request", nav |-> "none", configIn |-> config,
                         configOut |-> sent]
               /\ UNCHANGED <<user, token, role, isAuthenticated, isLoadingAuth, reqToken,
                              storage>>

\* The API answers a request: the response interceptor's two callbacks, the error
\* callback up to await authApi.refreshAccessToken
Response ==
    /\ UNCHANGED listingVars
    /\ \E o \in BagToSet(pending), status \in {200, 403, 500},
          message \in {"Unauthorized", "Forbidden"} :
           /\ o.kind = "request"
           /\ IF status = 200
              THEN /\ pending' = Remove(o)
                   /\ ev' = [op |-> "response", status |-> status, message |-> message,
                             outcome |-> "resolved", nav |-> "none"]
              ELSE IF ShouldRefresh(status, message)
              THEN /\ o.refreshes < MaxRefresh
                   /\ pending' = Replace(o, [kind |-> "refresh",
                                             config |-> [o.config EXCEPT !.retry = TRUE],
                                             refreshes |-> o.refreshes + 1,
                                             resends |-> o.resends,
                                             error |-> [status |-> status, message |-> message]])
                   /\ ev' = [op |-> "response", status |-> status, message |-> message,
                             outcome |-> "refreshing", nav |-> "none"]
              ELSE /\ pending' = Remove(o)
                   /\ ev' = [op |-> "response", status |-> status, message |-> message,
                             outcome |-> "rejected", nav |-> "none",
                             rejected |-> [status |-> status, message |-> message]]
           /\ UNCHANGED <<user, token, role, isAuthenticated, isLoadingAuth, reqToken,
                          storage>>

\* The response interceptor after await authApi.refreshAccessToken: on success the
\* original request is sent again through api.request, before the next render
RefreshDone ==
    /\ UNCHANGED listingVars
    /\ \E o \in BagToSet(pending) :
           /\ o.kind = "refresh"
           /\ \/ \E accessToken \in Tokens :
                   LET config == [o.config EXCEPT !.Authorization = Bearer(accessToken)]
                       sent == RequestInterceptor(config, reqToken)
                   IN  /\ token' = accessToken
                       /\ pending' = Replace(o, [kind |-> "request", config |-> sent,
                                                 refreshes |-> o.refreshes,
                                                 resends |-> o.resends + 1])
                       /\ ev' = [op |-> "refresh", ok |-> TRUE, accessToken |-> accessToken,
                                 configIn |-> config, configOut |-> sent,
                                 captured |-> reqToken,
                                 outcome |-> "resent", nav |-> "none"]
              \/ /\ pending' = Remove(o)
                 /\ ev' = [op |-> "refresh", ok |-> FALSE, outcome |-> "rejected",
                           rejected |-> o.error, nav |-> "none"]
                 /\ UNCHANGED token
           /\ reqToken' = RegisteredToken(reqToken, token')
           /\ UNCHANGED <<user, role, isAuthenticated, isLoadingAuth, storage>>

Next ==
    \/ Remount
    \/ FetchUserDone
    \/ HandleLogin
    \/ LoginDone
    \/ HandleVerifyOtp
    \/ VerifyOtpDone
    \/ HandleLogout
    \/ LogoutDone
    \/ HandleResendOtp
    \/ ResendOtpDone
    \/ HandleForgotPassword
    \/ ForgotPasswordDone
    \/ HandleResetPassword
    \/ ResetPasswordDone
    \/ IssueRequest
    \/ Response
    \/ RefreshDone

\* every operation of the provider, interleaved
Spec == Init /\ [][Next]_vars

\* the session handlers alone: no request goes through the interceptors
SessionNext ==
    \/ Remount
    \/ FetchUserDone
    \/ HandleLogin
    \/ LoginDone
    \/ HandleVerifyOtp
    \/ VerifyOtpDone
    \/ HandleLogout
    \/ LogoutDone

SessionSpec == Init /\ [][SessionNext]_vars

\* the interceptors, with the operations that set and clear the token they read
ApiNext ==
    \/ Remount
    \/ FetchUserDone
    \/ HandleLogout
    \/ LogoutDone
    \/ IssueRequest
    \/ Response
    \/ RefreshDone

ApiSpec == Init /\ [][ApiNext]_vars

\* the OTP and password handlers, with the operations that establish a session
PasswordNext ==
    \/ Remount
    \/ FetchUserDone
    \/ HandleLogin
    \/ LoginDone
    \/ HandleResendOtp
    \/ ResendOtpDone
    \/ HandleForgotPassword
    \/ ForgotPasswordDone
    \/ HandleResetPassword
    \/ ResetPasswordDone

PasswordSpec == Init /\ [][PasswordNext]_vars

----------------------------------------------------------------------------
(* Claims about the session manager, checked under Spec                    *)

Held(u, t) == ~IsNullish(u) /\ ~IsNullish(t)

\* the two values read the same: every property of one reads the same on the other
SameValue(a, b) ==
    IF a.type = "object" /\ b.type = "object"
    THEN \A k \in (DOMAIN a.obj) \cup (DOMAIN b.obj) : Get(a, k) = Get(b, k)
    ELSE a = b

\* C1: for one original request the response interceptor calls refreshAccessToken
\* at most once and sends the request again at most once.
C1_SingleRetry ==
    \A o \in BagToSet(pending) :
        o.kind \in {"request", "refresh"} => o.refreshes <= 1 /\ o.resends <= 1

\* C2: when a session is held (user and token non-null) and the provider is
\* remounted with getAuthUser failing, the user, token and role restored are the
\* ones held just before the remount.
C2_SessionRoundTrip ==
    [][(/\ ev.op = "mount"
        /\ Held(ev.held.user, ev.held.token)
        /\ ev'.op = "fetchUser"
        /\ ~ev'.ok)
       => /\ SameValue(user', ev.held.user)
          /\ token' = ev.held.token
          /\ role' = ev.held.role]_vars

C4_RefreshResend ==
    /\ (ev.op = "response" /\ ev.status = 403 /\ ev.message = "Unauthorized")
          => ev.outcome = "refreshing"
    /\ (ev.op = "refresh" /\ ev.ok) =>
          /\ ev.outcome = "resent"
          /\ ev.configOut.Authorization = Bearer(ev.accessToken)
          /\ token = ev.accessToken
          /\ \E o \in BagToSet(pending) :
                /\ o.kind = "request"
                /\ o.resends > 0
                /\ o.config.Authorization = Bearer(ev.accessToken)

\* a refresh that returned a token other than the one the interceptor had captured
C4_Witness ==
    /\ ev.op = "refresh"
    /\ ev.ok
    /\ ev.captured.type = "string"
    /\ ev.captured # ev.accessToken
    /\ token = ev.accessToken

\* C5: whenever the provider navigates to /dashboard a verified session is held
\* (user non-null with otpVerified true, token non-null); a login whose returned
\* user is not verified navigates to /verify-otp.
C5_DashboardNeedsVerifiedSession ==
    /\ ev.nav = "/dashboard" =>
          /\ ~IsNullish(user)
          /\ Get(user, "otpVerified") = Bool(TRUE)
          /\ ~IsNullish(token)
    /\ (ev.op = "login" /\ ev.res = "ok" /\ ~ev.verified) => ev.nav = "/verify-otp"

\* C6: a handleLogout whose request succeeds leaves token, user and role null,
\* isAuthenticated false, both sessionStorage keys absent and navigates to the
\* login route; one whose request fails changes none of them and does not navigate.
C6_Logout ==
    [][/\ (ev'.op = "logout" /\ ev'.ok) =>
              /\ token' = Null /\ user' = Null /\ role' = Null
              /\ isAuthenticated' = FALSE
              /\ storage'.currentUser = Null /\ storage'.token = Null
              /\ ev'.nav = "routes.LOGIN"
       /\ (ev'.op = "logout" /\ ~ev'.ok) =>
              /\ UNCHANGED <<token, user, role, storage>>
              /\ ev'.nav = "none"]_vars

\* a failed logout with a session held and stored
C6_Witness ==
    /\ ev.op = "logout"
    /\ ~ev.ok
    /\ Held(user, token)
    /\ storage.currentUser # Null
    /\ storage.token # Null

\* C8: a handleLogin that fails (the request rejects or res.status is falsy) sets
\* token, user and role to null and does not navigate; a handleLogin called with an
\* empty email or password issues no request and changes no state.
C8_LoginFailure ==
    [][/\ (ev'.op = "login" /\ ev'.res \in {"reject", "falsy"}) =>
              /\ token' = Null /\ user' = Null /\ role' = Null
              /\ ev'.nav = "none"
       /\ (ev'.op = "handleLogin" /\ ~ev'.issued) =>
              UNCHANGED <<user, token, role, isAuthenticated, isLoadingAuth, reqToken,
                          storage, pending>>]_vars

\* a failed login after a session had been stored
C8_Witness ==
    /\ ev.op = "login"
    /\ ev.res = "falsy"
    /\ storage.token # Null
    /\ token = Null

\* C9: a successful handleVerifyOtp changes only otpVerified of the user held when it
\* completes, in memory and in sessionStorage, and leaves token and role unchanged,
\* whatever changed the user while the request was in flight; a failed one throws and
\* leaves user and sessionStorage unchanged and does not navigate.
C9_VerifyOtpFrame ==
    [][/\ (ev'.op = "verifyOtp" /\ ev'.ok) =>
              /\ user.type = "object" =>
                    /\ user' = SpreadWith(user, "otpVerified", Bool(TRUE))
                    /\ Truthy(storage.currentUser) =>
                          JSONParse(storage'.currentUser) =
                              SpreadWith(JSONParse(storage.currentUser), "otpVerified",
                                         Bool(TRUE))
              /\ storage'.token = storage.token
              /\ UNCHANGED <<token, role>>
       /\ (ev'.op = "verifyOtp" /\ ~ev'.ok) =>
              /\ ev'.threw
              /\ ev'.nav = "none"
              /\ UNCHANGED <<user, storage>>]_vars

\* C10: when a response error is not a 403 "Unauthorized", or when the refresh call
\* fails, the response interceptor rejects with the original error, does not send the
\* request again and leaves the token unchanged.
C10_RejectWithoutRefresh ==
    [][/\ (/\ ev'.op = "response"
           /\ ev'.status # 200
           /\ ~(ev'.status = 403 /\ ev'.message = "Unauthorized")) =>
              /\ ev'.outcome = "rejected"
              /\ ev'.rejected = [status |-> ev'.status, message |-> ev'.message]
              /\ pending' \sqsubseteq pending
              /\ BagCardinality(pending') = BagCardinality(pending) - 1
              /\ token' = token
       /\ (ev'.op = "refresh" /\ ~ev'.ok) =>
              /\ ev'.outcome = "rejected"
              /\ \E o \in BagToSet(pending) :
                    /\ o.kind = "refresh"
                    /\ ev'.rejected = o.error
                    /\ pending' = pending (-) SetToBag({o})
              /\ token' = token]_vars

\* a failed refresh while a token is held
C10_Witness ==
    /\ ev.op = "refresh"
    /\ ~ev.ok
    /\ ev.rejected = [status |-> 403, message |-> "Unauthorized"]
    /\ token.type = "string"

\* C11: handleForgotPassword, handleResetPassword and handleResendOtp leave token, user,
\* role and both sessionStorage keys as they were, on success and on failure;
\* handleForgotPassword navigates to /change-password and handleResetPassword to
\* /change-password/success exactly when their request succeeds.
C11_PasswordHandlersFrame ==
    [][/\ ev'.op \in {"handleResendOtp", "resendOtp", "handleForgotPassword",
                      "forgotPassword", "handleResetPassword", "resetPassword"}
             => UNCHANGED <<token, user, role, storage>>
       /\ ev'.op \in {"handleResendOtp", "resendOtp", "handleForgotPassword",
                      "handleResetPassword"}
             => ev'.nav = "none"
       /\ ev'.op = "forgotPassword"
             => ev'.nav = (IF ev'.ok THEN "/change-password" ELSE "none")
       /\ ev'.op = "resetPassword"
             => ev'.nav = (IF ev'.ok THEN "/change-password/success" ELSE "none")]_vars

\* a failed forgotPassword request while a session is held and stored
C11_Witness ==
    /\ ev.op = "forgotPassword"
    /\ ~ev.ok
    /\ Held(user, token)
    /\ storage.currentUser # Null
    /\ storage.token # Null

\* C14: isLoadingAuth is true exactly when a handleLogin, handleVerifyOtp,
\* handleForgotPassword or handleResetPassword request is in flight.
C14_LoadingTracksPending ==
    isLoadingAuth =
        (\E o \in BagToSet(pending) :
            o.kind \in {"login", "verifyOtp", "forgotPassword", "resetPassword"})

\* C15: after a successful logout no completion of a call started before it (a token
\* refresh, the mount-time fetchUser, a login, an OTP verification) sets a token or a
\* user again.  Stated for the step that follows the logout: a completion taken then
\* belongs to a call that was already in flight.
C15_LogoutIsFinal ==
    [][(/\ ev.op = "logout"
        /\ ev.ok
        /\ ev'.op \in {"refresh", "fetchUser", "login", "verifyOtp"})
       => (token' = Null /\ user' = Null)]_vars

\* C16: after a failed login or a successful logout, which leave token and user null,
\* both sessionStorage keys are absent, so a remount whose getAuthUser fails restores
\* no session.
C16_NoStoredSessionWithoutSession ==
    ((\/ (ev.op = "login" /\ ev.res \in {"reject", "falsy"})
         \/ (ev.op = "logout" /\ ev.ok))
        /\ token = Null /\ user = Null)
          => (storage.currentUser = Null /\ storage.token = Null)

\* C17: isAuthenticated is true exactly when a session is held (user and token
\* non-null).
C17_IsAuthenticatedTracksSession ==
    isAuthenticated = Held(user, token)

----------------------------------------------------------------------------
(* ListingActions and Options                                              *)

\* (mutant) "View details" opens the edit modal
OnClickOpensEdit(idx, id, modal) ==
    CASE idx = 0 -> [requests |-> {[propertyId |-> id, type |-> "publish"]},
                     toast |-> "none", modal |-> modal]
      [] idx = 1 -> [requests |-> {}, toast |-> "Property rejected", modal |-> modal]
      [] idx = 2 -> [requests |-> {}, toast |-> "none", modal |-> "edit"]
      [] idx = 3 -> [requests |-> {[propertyId |-> id, type |-> "unpublish"]},
                     toast |-> "none", modal |-> modal]

\* Modal (components/ui/components/Modal) is a modal dialog: while one is shown the
\* row's popover behind it takes no clicks
PopoverReachable(modal) == modal = "false"

\* what onClickHandlers[idx]() of ListingActions does before it first awaits:
\* the mutation requests it issues, the toast it shows, the modal it opens
OnClick(idx, id, modal) ==
    CASE idx = 0 -> [requests |-> {[propertyId |-> id, type |-> "publish"]},
                     toast |-> "none", modal |-> modal]
      [] idx = 1 -> [requests |-> {}, toast |-> "Property rejected", modal |-> modal]
      [] idx = 2 -> [requests |-> {}, toast |-> "none", modal |-> "details"]
      [] idx = 3 -> [requests |-> {[propertyId |-> id, type |-> "unpublish"]},
                     toast |-> "none", modal |-> modal]

\* the toast shown after await publishUnpublishMutation.mutateAsync resolves
SuccessToast(idx) ==
    CASE idx = 0 -> "Property published successfully"
      [] idx = 3 -> "Property deleted successfully"
      [] OTHER -> "none"

\* the parent renders the row with another property
NewData ==
    /\ UNCHANGED authVars
    /\ \E id \in 1..MaxProps : id # dataId /\ dataId' = id
    /\ lev' = [op |-> "render", requests |-> {}, toast |-> "none"]
    /\ UNCHANGED <<openModal, loadingStates, optionsLoading, clicks>>

\* ListingActions.handleItemClick up to await onClickHandlers[idx]()
ItemClick ==
    /\ UNCHANGED authVars
    /\ \E idx \in DOMAIN dropdownList :
           LET did == OnClick(idx, dataId, openModal)
               showLoader == dropdownList[idx].showLoader
           IN  /\ PopoverReachable(openModal)
               /\ BagCardinality(clicks) < MaxClicks
               /\ loadingStates' = IF showLoader THEN [loadingStates EXCEPT ![idx] = TRUE]
                                   ELSE loadingStates
               /\ openModal' = did.modal
               /\ optionsLoading' = IF did.modal = openModal THEN optionsLoading
                                    ELSE [i \in DOMAIN options |-> FALSE]
               /\ clicks' = clicks (+) SetToBag({[in |-> "ListingActions", idx |-> idx,
                                                  requests |-> did.requests]})
               /\ lev' = [op |-> "click", idx |-> idx, requests |-> did.requests,
                          toast |-> did.toast]
               /\ UNCHANGED dataId

\* ListingActions.handleItemClick after the await: the handler's continuation and the
\* finally block; a mutation request resolves (ok) or rejects
ItemSettle ==
    /\ UNCHANGED authVars
    /\ \E c \in BagToSet(clicks), ok \in BOOLEAN :
           /\ c.in = "ListingActions"
           /\ c.requests = {} => ok
           /\ clicks' = clicks (-) SetToBag({c})
           /\ loadingStates' = IF dropdownList[c.idx].showLoader
                               THEN [loadingStates EXCEPT ![c.idx] = FALSE]
                               ELSE loadingStates
           /\ lev' = [op |-> "settle", idx |-> c.idx, ok |-> ok, requests |-> {},
                      toast |-> IF ok /\ c.requests # {} THEN SuccessToast(c.idx) ELSE "none"]
           /\ UNCHANGED <<dataId, openModal, optionsLoading>>

\* Options.onClickHandlers[idx](): the modal shown afterwards
OptionsOnClick(idx, modal) == IF idx = 2 THEN "edit" ELSE modal

\* Options.handleItemClick up to the await; Options is rendered in the details modal
OptionsClick ==
    /\ UNCHANGED authVars
    /\ \E idx \in DOMAIN options :
           LET modal == OptionsOnClick(idx, openModal)
           IN  /\ openModal = "details"
               /\ BagCardinality(clicks) < MaxClicks
               /\ openModal' = modal
               /\ optionsLoading' =
                     IF modal # "details" THEN [i \in DOMAIN options |-> FALSE]
                     ELSE IF options[idx].showLoader THEN [optionsLoading EXCEPT ![idx] = TRUE]
                     ELSE optionsLoading
               \* the continuations of an unmounted Options set no state
               /\ clicks' = IF modal # "details"
                            THEN [c \in {d \in BagToSet(clicks) : d.in # "Options"} |-> clicks[c]]
                            ELSE clicks (+) SetToBag({[in |-> "Options", idx |-> idx,
                                                       requests |-> {}]})
               /\ lev' = [op |-> "optionsClick", idx |-> idx, requests |-> {}, toast |-> "none"]
               /\ UNCHANGED <<dataId, loadingStates>>

\* Options.handleItemClick after the await: the finally block
OptionsSettle ==
    /\ UNCHANGED authVars
    /\ \E c \in BagToSet(clicks) :
           /\ c.in = "Options"
           /\ clicks' = clicks (-) SetToBag({c})
           /\ optionsLoading' = IF options[c.idx].showLoader
                                THEN [optionsLoading EXCEPT ![c.idx] = FALSE]
                                ELSE optionsLoading
           /\ lev' = [op |-> "optionsSettle", idx |-> c.idx, requests |-> {}, toast |-> "none"]
           /\ UNCHANGED <<dataId, openModal, loadingStates>>

\* setOpenModal(false): the Modal's close control, or closeModal of Details / PostProperty
CloseModal ==
    /\ UNCHANGED authVars
    /\ openModal # "false"
    /\ openModal' = "false"
    /\ optionsLoading' = [i \in DOMAIN options |-> FALSE]
    /\ clicks' = [c \in {d \in BagToSet(clicks) : d.in # "Options"} |-> clicks[c]]
    /\ lev' = [op |-> "closeModal", requests |-> {}, toast |-> "none"]
    /\ UNCHANGED <<dataId, loadingStates>>

ListingNext ==
    \/ NewData
    \/ ItemClick
    \/ ItemSettle
    \/ OptionsClick
    \/ OptionsSettle
    \/ CloseModal

ListingSpec == Init /\ [][ListingNext]_vars

----------------------------------------------------------------------------
(* Claims about the listing actions, checked under ListingSpec             *)

\* C7: each click on Approve, Reject or Delete issues exactly one mutation request,
\* for the property of the row, and an outcome message is shown only after a request
\* has succeeded.
C7_ClickForwardsToApi ==
    /\ (lev.op = "click" /\ dropdownList[lev.idx].label \in {"Approve", "Reject", "Delete"})
          => /\ Cardinality(lev.requests) = 1
             /\ \A r \in lev.requests : r.propertyId = dataId
    /\ lev.toast # "none" => (lev.op = "settle" /\ lev.ok)

C13_LoaderTracksPending ==
    /\ \A idx \in DOMAIN dropdownList :
          loadingStates[idx] =
              (/\ dropdownList[idx].showLoader
               /\ \E c \in BagToSet(clicks) : c.in = "ListingActions" /\ c.idx = idx)
    /\ \A idx \in DOMAIN options :
          optionsLoading[idx] =
              (/\ options[idx].showLoader
               /\ \E c \in BagToSet(clicks) : c.in = "Options" /\ c.idx = idx)
====
